---------------------------- MODULE Spec2Model ----------------------------
(***************************************************************************)
(* Model of the message-triage pipeline of aao_bot (package src/bot):      *)
(* the access gate, the classifier client, the delivery chain, the         *)
(* moderator escalation and the admin commands.  Strings are sequences of  *)
(* one-character strings, so that strip, startswith, count, rfind and      *)
(* replace are computed as Python computes them.                           *)
(***************************************************************************)
EXTENDS Integers, Sequences, FiniteSets, TLC

VARIABLES
    ADVISOR_USER_IDS,   \* bot.config.ADVISOR_USER_IDS: set of operator ids
    MODERATOR_CHAT_ID,  \* bot.config.MODERATOR_CHAT_ID: <<>> (unset) or <<id>>
    GROUP_CHAT_IDS,     \* bot.config.GROUP_CHAT_IDS: chat allowlist, {} = none
    client,             \* bot.openai_client.client: TRUE iff initialised
    FAQ_CONTENT,        \* bot.config.FAQ_CONTENT: knowledge base text
    BOT_IS_ACTIVE,      \* context.bot_data["BOT_IS_ACTIVE"]
    task,               \* one handle_message coroutine per incoming message
    replies,            \* per message: update.message.reply_text calls, in order
    modSends,           \* per message: bot.send_message calls to the moderator
    san,                \* sanitize_markdown applied repeatedly to one input
    cls,                \* get_llm_response applied to one input
    reaction,           \* handle_reaction_downvote applied to one update after another
    deletes,            \* bot.delete_message calls of the reaction handler, in order
    cmd,                \* an admin command handler applied to one update after another
    esc,                \* a moderator message built for one question and answer
    cmdTask             \* per admin command: its start_command / stop_command coroutine

vars == <<ADVISOR_USER_IDS, MODERATOR_CHAT_ID, GROUP_CHAT_IDS, client,
          FAQ_CONTENT, BOT_IS_ACTIVE, task, replies, modSends,
          san, cls, reaction, deletes, cmd, esc, cmdTask>>

cfgVars == <<ADVISOR_USER_IDS, MODERATOR_CHAT_ID, GROUP_CHAT_IDS, client,
             FAQ_CONTENT>>

-----------------------------------------------------------------------------
(* Bounds of the model *)

\* longest text given to sanitize_markdown in SanSpec
MaxLen == 3
\* how many times sanitize_markdown is applied in a row in SanSpec
MaxApply == 2
\* longest whitespace padding around a completion output in ClsSpec
MaxPad == 1
\* most delete requests followed in a run of the reaction handler
MaxDeletes == 2

-----------------------------------------------------------------------------
(* Strings *)

Whitespace == {" ", "\n"}

RECURSIVE lstrip(_)
lstrip(s) ==
    IF s = <<>> THEN s
    ELSE IF Head(s) \in Whitespace THEN lstrip(Tail(s)) ELSE s

RECURSIVE rstrip(_)
rstrip(s) ==
    IF s = <<>> THEN s
    ELSE IF s[Len(s)] \in Whitespace THEN rstrip(SubSeq(s, 1, Len(s) - 1)) ELSE s

\* str.strip()
strip(s) == rstrip(lstrip(s))

\* str.startswith(c) for a one-character prefix
startswith(s, c) == Len(s) >= 1 /\ s[1] = c

\* str.count(c)
count(s, c) == Cardinality({i \in 1..Len(s) : s[i] = c})

\* str.rfind(c), as a 1-based position; 0 when absent
rfind(s, c) ==
    IF count(s, c) = 0 THEN 0
    ELSE CHOOSE i \in 1..Len(s) : s[i] = c /\ \A j \in (i+1)..Len(s) : s[j] # c

\* str.replace(c, r): every occurrence of the character c becomes the string r
RECURSIVE replace(_, _, _)
replace(s, c, r) ==
    IF s = <<>> THEN s
    ELSE (IF Head(s) = c THEN r ELSE <<Head(s)>>) \o replace(Tail(s), c, r)

\* text[:n] + ("..." if len(text) > n else "")
Preview(s, n) ==
    IF Len(s) > n THEN SubSeq(s, 1, n) \o <<".", ".", ".">> ELSE s

RECURSIVE SeqsUpTo(_, _)
SeqsUpTo(S, n) ==
    IF n = 0 THEN {<<>>}
    ELSE LET shorter == SeqsUpTo(S, n - 1)
         IN  shorter \cup {Append(s, c) : s \in {t \in shorter : Len(t) = n - 1}, c \in S}

-----------------------------------------------------------------------------
(* bot.config markers *)

NOT_A_QUESTION_MARKER ==
    <<"[", "N", "O", "T", "_", "A", "_", "Q", "U", "E", "S", "T", "I", "O", "N", "]">>

CANNOT_ANSWER_MARKER ==
    <<"[", "C", "A", "N", "N", "O", "T", "_", "A", "N", "S", "W", "E", "R", "]">>

-----------------------------------------------------------------------------
(* bot.utils.sanitize_markdown *)

BS == "\\"

\* the code-span toggle character (a backquote)
BQ == "BQ"

\* the pass escaping the first occurrence instead of the last
FixUnmatched_first(text, char) ==
    IF count(text, char) % 2 # 0
    THEN LET first_pos == CHOOSE i \in 1..Len(text) :
                              text[i] = char /\ \A j \in 1..(i - 1) : text[j] # char
         IN  SubSeq(text, 1, first_pos - 1) \o <<BS, char>>
                 \o SubSeq(text, first_pos + 1, Len(text))
    ELSE text

\* one pass of the loop over the three toggle characters: escape the last
\* occurrence when the count is odd
FixUnmatched(text, char) ==
    IF count(text, char) % 2 # 0
    THEN LET last_pos == rfind(text, char)
         IN  IF last_pos >= 1
             THEN SubSeq(text, 1, last_pos - 1) \o <<BS, char>>
                      \o SubSeq(text, last_pos + 1, Len(text))
             ELSE text
    ELSE text

FixBrackets(text) ==
    IF count(text, "[") # count(text, "]")
    THEN replace(replace(text, "[", <<BS, "[">>), "]", <<BS, "]">>)
    ELSE text

EscapeSpecials(text) ==
    replace(replace(replace(text, ">", <<BS, ">">>), "<", <<BS, "<">>),
            "&", <<BS, "&">>)

sanitize_markdown(text) ==
    IF text = <<>> THEN text
    ELSE EscapeSpecials(FixBrackets(
             FixUnmatched(FixUnmatched(FixUnmatched(text, "*"), "_"), BQ)))

-----------------------------------------------------------------------------
(* Results of calls: a value returned, or an exception raised *)

\* an exception: type(e).__name__ and str(e)
Exc(type, msg) == [type |-> type, msg |-> msg]
NoExc == Exc("", "")

Return(v) == [raised |-> FALSE, value |-> v, exc |-> NoExc]
Raise(e)  == [raised |-> TRUE,  value |-> <<>>, exc |-> e]

\* the outcome of one outbound call to the platform (reply_text, send_message,
\* send_chat_action): it succeeds, or raises one of SendErrors
SendErrors ==
    {Exc("BadRequest", "Can't parse entities"), Exc("TimedOut", "Timed out")}
Outcomes == {[ok |-> TRUE, exc |-> NoExc]} \cup {[ok |-> FALSE, exc |-> e] : e \in SendErrors}

\* f"{type(e).__name__}: {str(e)}"
ErrorMsg(e) == <<e.type, ": ", e.msg>>
\* str(e)
ErrorStr(e) == <<e.msg>>

-----------------------------------------------------------------------------
(* bot.openai_client.get_llm_response *)

\* what the completion service does with one request: it answers with a text
\* content, with a message whose content is None, with an empty choices list,
\* or the call raises (timeout, rate limit, authentication, quota, other)
ServiceErrors ==
    {Exc("APITimeoutError", "Request timed out."),
     Exc("RateLimitError", "Rate limit reached"),
     Exc("AuthenticationError", "Incorrect API key provided"),
     Exc("APIConnectionError", "Connection error.")}
SvcText(t)  == [kind |-> "text", content |-> t, exc |-> NoExc]
SvcNone     == [kind |-> "none", content |-> <<>>, exc |-> NoExc]
SvcNoChoice == [kind |-> "nochoices", content |-> <<>>, exc |-> NoExc]
SvcError(e) == [kind |-> "error", content |-> <<>>, exc |-> e]
\* no request was made
NoCall      == [kind |-> "nocall", content |-> <<>>, exc |-> NoExc]

\* the guards before the request: the service is called only when all pass
ServiceCalled(user_message) ==
    /\ client
    /\ FAQ_CONTENT # <<>>
    /\ user_message # <<>> /\ strip(user_message) # <<>>

\* the try block without response_text.strip(): the content is returned as is
CompletionText_unstripped(svc) ==
    CASE svc.kind = "error"     -> Raise(svc.exc)
      [] svc.kind = "nochoices" -> Raise(Exc("IndexError", "list index out of range"))
      [] svc.kind = "none"      -> Return(CANNOT_ANSWER_MARKER)
      [] OTHER ->
            IF svc.content = <<>> THEN Return(CANNOT_ANSWER_MARKER)
            ELSE Return(svc.content)

\* the body of the try block: the API call and the validation of its response
CompletionText(svc) ==
    CASE svc.kind = "error"     -> Raise(svc.exc)
      [] svc.kind = "nochoices" -> Raise(Exc("IndexError", "list index out of range"))
      [] svc.kind = "none"      -> Return(CANNOT_ANSWER_MARKER)
      [] OTHER ->
            IF svc.content = <<>> THEN Return(CANNOT_ANSWER_MARKER)
            ELSE LET response_text == strip(svc.content)
                 IN  IF response_text = <<>> THEN Return(CANNOT_ANSWER_MARKER)
                     ELSE Return(response_text)

\* get_llm_response without its except clause: the exception leaves it
LlmExcept_missing(r) == r

\* the except clause of get_llm_response: every Exception folds into the
\* cannot-answer marker
LlmExcept(r) == IF r.raised THEN Return(CANNOT_ANSWER_MARKER) ELSE r

\* get_llm_response whose first two guards return the other marker
get_llm_response_not_question(user_message, svc) ==
    IF ~client THEN Return(NOT_A_QUESTION_MARKER)
    ELSE IF FAQ_CONTENT = <<>> THEN Return(NOT_A_QUESTION_MARKER)
    ELSE IF user_message = <<>> \/ strip(user_message) = <<>>
         THEN Return(NOT_A_QUESTION_MARKER)
    ELSE LlmExcept(CompletionText(svc))

get_llm_response(user_message, svc) ==
    IF ~client THEN Return(CANNOT_ANSWER_MARKER)
    ELSE IF FAQ_CONTENT = <<>> THEN Return(CANNOT_ANSWER_MARKER)
    ELSE IF user_message = <<>> \/ strip(user_message) = <<>>
         THEN Return(NOT_A_QUESTION_MARKER)
    ELSE LlmExcept(CompletionText(svc))

\* _process_llm_response, lines 147-165: the branch taken on the value returned
Classification(llm_answer) ==
    LET answer == IF llm_answer = <<>> \/ strip(llm_answer) = <<>>
                  THEN CANNOT_ANSWER_MARKER ELSE llm_answer
    IN  IF answer = NOT_A_QUESTION_MARKER THEN "NotQuestion"
        ELSE IF answer = CANNOT_ANSWER_MARKER THEN "CannotAnswer"
        ELSE "Answered"

-----------------------------------------------------------------------------
(* bot.handlers.messages: the access gate *)

\* the gate without the operator check
_should_ignore_message_no_operator(chat_id, user_id, message_text) ==
    IF GROUP_CHAT_IDS # {} /\ chat_id \notin GROUP_CHAT_IDS THEN "unauthorized chat"
    ELSE IF ~BOT_IS_ACTIVE THEN "inactive"
    ELSE IF startswith(message_text, "/") \/ message_text = <<>> THEN "command or empty"
    ELSE "proceed"

\* the gate with the flag checked before the operator
_should_ignore_message_flag_first(chat_id, user_id, message_text) ==
    IF GROUP_CHAT_IDS # {} /\ chat_id \notin GROUP_CHAT_IDS THEN "unauthorized chat"
    ELSE IF ~BOT_IS_ACTIVE THEN "inactive"
    ELSE IF user_id \in ADVISOR_USER_IDS THEN "operator message"
    ELSE IF startswith(message_text, "/") \/ message_text = <<>> THEN "command or empty"
    ELSE "proceed"

\* the reason for which the message is ignored, "proceed" when it is not
\* (the code returns True after logging the reason, False otherwise)
_should_ignore_message(chat_id, user_id, message_text) ==
    IF GROUP_CHAT_IDS # {} /\ chat_id \notin GROUP_CHAT_IDS THEN "unauthorized chat"
    ELSE IF user_id \in ADVISOR_USER_IDS THEN "operator message"
    ELSE IF ~BOT_IS_ACTIVE THEN "inactive"
    ELSE IF startswith(message_text, "/") \/ message_text = <<>> THEN "command or empty"
    ELSE "proceed"

-----------------------------------------------------------------------------
(* bot.handlers.messages: one handle_message coroutine per message.  A     *)
(* coroutine gives up control only at an await of an outbound call; the    *)
(* code between two awaits runs as one step.  pc names the await the       *)
(* coroutine is suspended at:                                              *)
(*   new            the update has not arrived                             *)
(*   typing         bot.send_chat_action          (_send_typing_indicator) *)
(*   send           update.message.reply_text (_try_send_response_...)     *)
(*   notify         bot.send_message   (_notify_moderator_about_question)  *)
(*   notify_failed  bot.send_message             (_handle_failed_response) *)
(*   done           handle_message returned                                *)
(*   raised         an exception left handle_message                       *)
(* ctx names the try block the coroutine is in: "try" is the try of        *)
(* _process_llm_response, "except" its except clause (inside the try of    *)
(* handle_message), "handler_except" the except clause of handle_message.  *)

Msgs  == {"m1", "m2"}
Users == {1, 2}
Chats == {10, 11}
Texts == {<<>>, <<" ">>, <<" ", "/", "s">>, <<"q", " ">>}

\* what the completion service may do in the pipeline runs
MainBehaviours ==
    { SvcText(NOT_A_QUESTION_MARKER \o <<"\n">>),
      SvcText(CANNOT_ANSWER_MARKER),
      SvcText(<<" ">>),
      SvcText(<<"*", "a", "<", " ">>),
      SvcError(Exc("APITimeoutError", "Request timed out.")) }

NewTask ==
    [pc |-> "new", chat_id |-> 0, user_id |-> 0, text |-> <<>>,
     message_text |-> <<>>, gate |-> "", ctx |-> "", svc |-> NoCall,
     llm_calls |-> <<>>, llm_answer |-> <<>>, classification |-> "",
     processing_error |-> <<>>, method |-> "", delivery_attempts |-> <<>>,
     typing_ok |-> TRUE]

\* _send_typing_indicator without its try: the failure of send_chat_action
\* leaves it
_send_typing_indicator_uncaught(o) ==
    IF o.ok THEN Return(<<>>) ELSE Raise(o.exc)

\* _send_typing_indicator: the failure of send_chat_action is logged and dropped
_send_typing_indicator(o) == Return(<<>>)

\* _try_send_response_with_error reporting str(e) without the exception type
_try_send_response_with_error_str(o) ==
    IF o.ok THEN Return([success |-> TRUE, error |-> <<>>])
    ELSE Return([success |-> FALSE, error |-> ErrorStr(o.exc)])

\* _try_send_response_with_error reporting success whatever the send did
_try_send_response_with_error_swallows(o) ==
    Return([success |-> TRUE, error |-> <<>>])

\* _try_send_response_with_error: (success, error) of one reply_text call
_try_send_response_with_error(o) ==
    IF o.ok THEN Return([success |-> TRUE, error |-> <<>>])
    ELSE Return([success |-> FALSE, error |-> ErrorMsg(o.exc)])

\* _notify_moderator_about_question without the try around the send
_notify_moderator_about_question_uncaught(o) ==
    IF o.ok THEN Return(<<>>) ELSE Raise(o.exc)

\* _notify_moderator_about_question: the try around the send catches Exception
_notify_moderator_about_question(o) == Return(<<>>)

\* _handle_failed_response without the try around the send
_handle_failed_response_uncaught(o) ==
    IF o.ok THEN Return(<<>>) ELSE Raise(o.exc)

\* _handle_failed_response: the try around the send catches Exception
_handle_failed_response(o) == Return(<<>>)

\* _handle_successful_answer without the "if not delivery_success" guards:
\* every method is tried
_handle_successful_answer_no_stop(delivery_attempts) ==
    IF delivery_attempts = <<>> THEN "markdown"
    ELSE LET last == delivery_attempts[Len(delivery_attempts)]
         IN  IF last.method = "markdown" THEN "sanitized_markdown"
             ELSE IF last.method = "sanitized_markdown" THEN "plain_text"
             ELSE IF last.success THEN "delivered"
             ELSE "exhausted"

\* _handle_successful_answer starting over with the first method after the
\* third one failed
_handle_successful_answer_retries(delivery_attempts) ==
    IF delivery_attempts = <<>> THEN "markdown"
    ELSE LET last == delivery_attempts[Len(delivery_attempts)]
         IN  IF last.success THEN "delivered"
             ELSE IF last.method = "markdown" THEN "sanitized_markdown"
             ELSE IF last.method = "sanitized_markdown" THEN "plain_text"
             ELSE "markdown"

\* _handle_successful_answer: what it does next, given the attempts made so
\* far: the next method to try, "delivered" or "exhausted"
_handle_successful_answer(delivery_attempts) ==
    IF delivery_attempts = <<>> THEN "markdown"
    ELSE LET last == delivery_attempts[Len(delivery_attempts)]
         IN  IF last.success THEN "delivered"
             ELSE IF last.method = "markdown" THEN "sanitized_markdown"
             ELSE IF last.method = "sanitized_markdown" THEN "plain_text"
             ELSE "exhausted"

\* the plain_text attempt sending the sanitized text as well
ResponseText_sanitizes_plain(method, llm_answer) ==
    IF method = "markdown" THEN llm_answer ELSE sanitize_markdown(llm_answer)

\* the text and parse mode a method sends
ResponseText(method, llm_answer) ==
    IF method = "sanitized_markdown" THEN sanitize_markdown(llm_answer) ELSE llm_answer
ParseMode(method) == IF method = "plain_text" THEN "None" ELSE "Markdown"

\* _handle_unanswerable_question that notifies only about a processing error
EnterUnanswerable_errors_only(t, processing_error) ==
    IF MODERATOR_CHAT_ID # <<>> /\ processing_error # <<>>
    THEN [t EXCEPT !.pc = "notify", !.processing_error = processing_error]
    ELSE [t EXCEPT !.pc = "done", !.processing_error = processing_error]

\* _handle_unanswerable_question: notify the moderator when one is configured
EnterUnanswerable(t, processing_error) ==
    IF MODERATOR_CHAT_ID # <<>>
    THEN [t EXCEPT !.pc = "notify", !.processing_error = processing_error]
    ELSE [t EXCEPT !.pc = "done", !.processing_error = processing_error]

\* an exception raised below handle_message, caught by the innermost
\* enclosing except clause
Propagate(t, e) ==
    IF t.ctx = "try"
    THEN EnterUnanswerable([t EXCEPT !.ctx = "except"], ErrorStr(e))
    ELSE IF t.ctx = "except"
    THEN EnterUnanswerable([t EXCEPT !.ctx = "handler_except"], ErrorMsg(e))
    ELSE [t EXCEPT !.pc = "raised"]

\* _handle_failed_response without the "if not MODERATOR_CHAT_ID" return
EnterFailedResponse_unchecked(t) == [t EXCEPT !.pc = "notify_failed"]

\* _handle_failed_response, lines 365-369
EnterFailedResponse(t) ==
    IF MODERATOR_CHAT_ID = <<>> THEN [t EXCEPT !.pc = "done"]
    ELSE [t EXCEPT !.pc = "notify_failed"]

\* the end of _handle_successful_answer without its last guard: the failure
\* report is made whether or not a send succeeded
ContinueDelivery_always_reports(t) ==
    LET next == _handle_successful_answer(t.delivery_attempts)
    IN  IF next \in {"delivered", "exhausted"}
        THEN EnterFailedResponse([t EXCEPT !.method = ""])
        ELSE [t EXCEPT !.pc = "send", !.method = next]

\* _handle_successful_answer between two sends and after the last one
ContinueDelivery(t) ==
    LET next == _handle_successful_answer(t.delivery_attempts)
    IN  IF next = "delivered" THEN [t EXCEPT !.pc = "done", !.method = ""]
        ELSE IF next = "exhausted" THEN EnterFailedResponse([t EXCEPT !.method = ""])
        ELSE [t EXCEPT !.pc = "send", !.method = next]

\* _process_llm_response treating the not-a-question marker as unanswerable:
\* the message is escalated
ProcessLlm_escalates_not_question(t, svc) ==
    LET r  == get_llm_response(t.message_text, svc)
        t1 == [t EXCEPT !.ctx = "try", !.svc = svc,
                        !.llm_calls = Append(@, BOT_IS_ACTIVE)]
    IN  IF r.raised THEN Propagate(t1, r.exc)
        ELSE LET c  == Classification(r.value)
                 t2 == [t1 EXCEPT !.llm_answer = r.value, !.classification = c]
             IN  IF c \in {"NotQuestion", "CannotAnswer"} THEN EnterUnanswerable(t2, <<>>)
                 ELSE ContinueDelivery(t2)

\* _process_llm_response without the cannot-answer branch: the marker is
\* delivered to the requester like an answer
ProcessLlm_replies_marker(t, svc) ==
    LET r  == get_llm_response(t.message_text, svc)
        t1 == [t EXCEPT !.ctx = "try", !.svc = svc,
                        !.llm_calls = Append(@, BOT_IS_ACTIVE)]
    IN  IF r.raised THEN Propagate(t1, r.exc)
        ELSE LET c  == Classification(r.value)
                 t2 == [t1 EXCEPT !.llm_answer = r.value, !.classification = c]
             IN  IF c = "NotQuestion" THEN [t2 EXCEPT !.pc = "done"]
                 ELSE ContinueDelivery(t2)

\* _process_llm_response reading the flag again before the classifier call
\* and dropping the message when it is off
ProcessLlm_rechecks_flag(t, svc) ==
    LET r  == get_llm_response(t.message_text, svc)
        t1 == [t EXCEPT !.ctx = "try", !.svc = svc,
                        !.llm_calls = Append(@, BOT_IS_ACTIVE)]
    IN  IF ~BOT_IS_ACTIVE THEN [t EXCEPT !.pc = "done"]
        ELSE IF r.raised THEN Propagate(t1, r.exc)
        ELSE LET c  == Classification(r.value)
                 t2 == [t1 EXCEPT !.llm_answer = r.value, !.classification = c]
             IN  IF c = "NotQuestion" THEN [t2 EXCEPT !.pc = "done"]
                 ELSE IF c = "CannotAnswer" THEN EnterUnanswerable(t2, <<>>)
                 ELSE ContinueDelivery(t2)

\* _process_llm_response up to its first await
ProcessLlm(t, svc) ==
    LET r  == get_llm_response(t.message_text, svc)
        t1 == [t EXCEPT !.ctx = "try", !.svc = svc,
                        !.llm_calls = Append(@, BOT_IS_ACTIVE)]
    IN  IF r.raised THEN Propagate(t1, r.exc)
        ELSE LET c  == Classification(r.value)
                 t2 == [t1 EXCEPT !.llm_answer = r.value, !.classification = c]
             IN  IF c = "NotQuestion" THEN [t2 EXCEPT !.pc = "done"]
                 ELSE IF c = "CannotAnswer" THEN EnterUnanswerable(t2, <<>>)
                 ELSE ContinueDelivery(t2)

\* handle_message going on to the typing indicator whatever the gate said
handle_message_ignores_late(m) ==
    /\ task[m].pc = "new"
    /\ \E chat_id \in Chats, user_id \in Users, text \in Texts :
         LET t0 == [task[m] EXCEPT !.chat_id = chat_id, !.user_id = user_id,
                                   !.text = text, !.message_text = strip(text)]
             reason == _should_ignore_message(chat_id, user_id, t0.message_text)
         IN  task' = [task EXCEPT ![m] =
                 IF text = <<>> THEN [t0 EXCEPT !.pc = "done", !.gate = "invalid"]
                 ELSE [t0 EXCEPT !.pc = "typing", !.gate = reason]]
    /\ UNCHANGED <<cfgVars, BOT_IS_ACTIVE, replies, modSends, san, cls, reaction,
                   deletes, cmd, esc, cmdTask>>

\* handle_message from the arrival of the update to the first await
handle_message(m) ==
    /\ task[m].pc = "new"
    /\ \E chat_id \in Chats, user_id \in Users, text \in Texts :
         LET t0 == [task[m] EXCEPT !.chat_id = chat_id, !.user_id = user_id,
                                   !.text = text, !.message_text = strip(text)]
             reason == _should_ignore_message(chat_id, user_id, t0.message_text)
         IN  task' = [task EXCEPT ![m] =
                 IF text = <<>> THEN [t0 EXCEPT !.pc = "done", !.gate = "invalid"]
                 ELSE IF reason # "proceed" THEN [t0 EXCEPT !.pc = "done", !.gate = reason]
                 ELSE [t0 EXCEPT !.pc = "typing", !.gate = "proceed"]]
    /\ UNCHANGED <<cfgVars, BOT_IS_ACTIVE, replies, modSends, san, cls, reaction,
                   deletes, cmd, esc, cmdTask>>

\* send_chat_action returns; handle_message runs on into _process_llm_response
typing_indicator_returns(m) ==
    /\ task[m].pc = "typing"
    /\ \E o \in Outcomes :
       \E svc \in (IF ServiceCalled(task[m].message_text) THEN MainBehaviours ELSE {NoCall}) :
         LET r == _send_typing_indicator(o)
         IN  task' = [task EXCEPT ![m] =
                 IF r.raised THEN [@ EXCEPT !.pc = "raised", !.typing_ok = o.ok]
                 ELSE ProcessLlm([@ EXCEPT !.typing_ok = o.ok], svc)]
    /\ UNCHANGED <<cfgVars, BOT_IS_ACTIVE, replies, modSends, san, cls, reaction,
                   deletes, cmd, esc, cmdTask>>

\* reply_text returns inside _try_send_response_with_error
reply_text_returns(m) ==
    /\ task[m].pc = "send"
    /\ \E o \in Outcomes :
         LET t == task[m]
             r == _try_send_response_with_error(o)
             attempt == [method |-> t.method, success |-> r.value.success,
                         error |-> r.value.error]
         IN  /\ replies' = [replies EXCEPT ![m] = Append(@,
                    [text |-> ResponseText(t.method, t.llm_answer),
                     parse_mode |-> ParseMode(t.method), ok |-> o.ok, exc |-> o.exc])]
             /\ task' = [task EXCEPT ![m] =
                    IF r.raised THEN Propagate(t, r.exc)
                    ELSE ContinueDelivery(
                             [t EXCEPT !.delivery_attempts = Append(@, attempt)])]
    /\ UNCHANGED <<cfgVars, BOT_IS_ACTIVE, modSends, san, cls, reaction, deletes,
                   cmd, esc, cmdTask>>

\* the message a moderator send carries
ModeratorMessage(t, template, o) ==
    [template |-> template,
     chat_id  |-> MODERATOR_CHAT_ID[1],
     question |-> Preview(t.message_text, IF template = "cannot_answer" THEN 500 ELSE 300),
     error_info |-> IF template = "cannot_answer" THEN t.processing_error ELSE <<>>,
     attempts |-> IF template = "delivery_failed" THEN t.delivery_attempts ELSE <<>>,
     answer   |-> IF template = "delivery_failed" THEN Preview(t.llm_answer, 1000) ELSE <<>>,
     ok |-> o.ok]

\* bot.send_message returns inside _notify_moderator_about_question
notify_returns(m) ==
    /\ task[m].pc = "notify"
    /\ \E o \in Outcomes :
         LET t == task[m]
             r == _notify_moderator_about_question(o)
         IN  /\ modSends' = [modSends EXCEPT ![m] =
                    Append(@, ModeratorMessage(t, "cannot_answer", o))]
             /\ task' = [task EXCEPT ![m] =
                    IF r.raised THEN Propagate(t, r.exc) ELSE [t EXCEPT !.pc = "done"]]
    /\ UNCHANGED <<cfgVars, BOT_IS_ACTIVE, replies, san, cls, reaction, deletes,
                   cmd, esc, cmdTask>>

\* bot.send_message returns inside _handle_failed_response
failed_notify_returns(m) ==
    /\ task[m].pc = "notify_failed"
    /\ \E o \in Outcomes :
         LET t == task[m]
             r == _handle_failed_response(o)
         IN  /\ modSends' = [modSends EXCEPT ![m] =
                    Append(@, ModeratorMessage(t, "delivery_failed", o))]
             /\ task' = [task EXCEPT ![m] =
                    IF r.raised THEN Propagate(t, r.exc) ELSE [t EXCEPT !.pc = "done"]]
    /\ UNCHANGED <<cfgVars, BOT_IS_ACTIVE, replies, san, cls, reaction, deletes,
                   cmd, esc, cmdTask>>

-----------------------------------------------------------------------------
(* bot.handlers.commands: the admin commands.  The flag is written before  *)
(* the reply is awaited.                                                   *)

\* start_command behind the gate of the message path: it acts only while
\* the flag is on
start_command_gated(user_id) ==
    /\ BOT_IS_ACTIVE
    /\ BOT_IS_ACTIVE' = IF user_id \in ADVISOR_USER_IDS THEN TRUE ELSE BOT_IS_ACTIVE
    /\ UNCHANGED <<cfgVars, task, replies, modSends, san, cls, reaction, deletes,
                   cmd, esc, cmdTask>>

\* start_command adding its caller to the operators as well
start_command_grants(user_id) ==
    /\ BOT_IS_ACTIVE' = IF user_id \in ADVISOR_USER_IDS THEN TRUE ELSE BOT_IS_ACTIVE
    /\ ADVISOR_USER_IDS' = ADVISOR_USER_IDS \cup {user_id}
    /\ UNCHANGED <<MODERATOR_CHAT_ID, GROUP_CHAT_IDS, client, FAQ_CONTENT, task,
                   replies, modSends, san, cls, reaction, deletes, cmd, esc, cmdTask>>

start_command(user_id) ==
    /\ BOT_IS_ACTIVE' = IF user_id \in ADVISOR_USER_IDS THEN TRUE ELSE BOT_IS_ACTIVE
    /\ UNCHANGED <<cfgVars, task, replies, modSends, san, cls, reaction, deletes,
                   cmd, esc, cmdTask>>

stop_command(user_id) ==
    /\ BOT_IS_ACTIVE' = IF user_id \in ADVISOR_USER_IDS THEN FALSE ELSE BOT_IS_ACTIVE
    /\ UNCHANGED <<cfgVars, task, replies, modSends, san, cls, reaction, deletes,
                   cmd, esc, cmdTask>>

status_command(user_id) ==
    /\ UNCHANGED vars

\* the same handlers as functions of the update, the flag and the outcome of
\* the reply: the flag they leave, the reply_text call they make, and
\* whether they return or raise.  No reply_text of this module is in a try.
RefusalText == "Sorry, this command is only available to advisors."
StartedText == "Bot is now active and will respond to student questions."
StoppedText == "Bot is now inactive and will not respond to student questions."
ReportText  == "Bot Status Report"

\* "if not update.message or not update.effective_user: return"
CmdReturns(flag) ==
    [BOT_IS_ACTIVE |-> flag, reply |-> <<>>, raised |-> FALSE, exc |-> NoExc]

\* await update.message.reply_text(text) as the last statement of a handler
CmdReplies(flag, text, parse_mode, status_info, o) ==
    [BOT_IS_ACTIVE |-> flag,
     reply |-> <<[text |-> text, parse_mode |-> parse_mode,
                  status_info |-> status_info, ok |-> o.ok]>>,
     raised |-> ~o.ok, exc |-> o.exc]

\* a handler that answers a non-advisor like an advisor
CmdRefuses_not(update) == FALSE

\* "if user_id not in ADVISOR_USER_IDS"
CmdRefuses(update) == update.user[1] \notin ADVISOR_USER_IDS

\* the value start_command writes, inverted
StartValue_inverted == FALSE

\* context.bot_data["BOT_IS_ACTIVE"] = True
StartValue == TRUE

StartCommand(update, flag, o) ==
    IF ~update.message \/ update.user = <<>> THEN CmdReturns(flag)
    ELSE IF CmdRefuses(update) THEN CmdReplies(flag, RefusalText, "None", <<>>, o)
    ELSE CmdReplies(StartValue, StartedText, "None", <<>>, o)

StopCommand(update, flag, o) ==
    IF ~update.message \/ update.user = <<>> THEN CmdReturns(flag)
    ELSE IF CmdRefuses(update) THEN CmdReplies(flag, RefusalText, "None", <<>>, o)
    ELSE CmdReplies(FALSE, StoppedText, "None", <<>>, o)

\* status_info with the flag's default instead of the flag
StatusInfo_default(flag) ==
    [bot_active |-> TRUE,
     faq_loaded |-> FAQ_CONTENT # <<>>,
     openai_connected |-> client,
     advisors_count |-> Cardinality(ADVISOR_USER_IDS),
     moderator_configured |-> MODERATOR_CHAT_ID # <<>>,
     group_chats_configured |-> Cardinality(GROUP_CHAT_IDS)]

\* status_info, lines 118-129 (faq_length is Len of the text)
StatusInfo(flag) ==
    [bot_active |-> flag,
     faq_loaded |-> FAQ_CONTENT # <<>>,
     openai_connected |-> client,
     advisors_count |-> Cardinality(ADVISOR_USER_IDS),
     moderator_configured |-> MODERATOR_CHAT_ID # <<>>,
     group_chats_configured |-> Cardinality(GROUP_CHAT_IDS)]

\* __import__("bot.config") returns the top-level package bot, so the
\* lookups of lines 119-128 succeed only when that package exposes the
\* names (exported); otherwise the first of them raises AttributeError
StatusCommand(update, flag, exported, o) ==
    IF ~update.message \/ update.user = <<>> THEN CmdReturns(flag)
    ELSE IF CmdRefuses(update) THEN CmdReplies(flag, RefusalText, "None", <<>>, o)
    ELSE IF ~exported
    THEN [BOT_IS_ACTIVE |-> flag, reply |-> <<>>, raised |-> TRUE,
          exc |-> Exc("AttributeError", "module 'bot' has no attribute 'FAQ_CONTENT'")]
    ELSE CmdReplies(flag, ReportText, "Markdown", <<StatusInfo(flag)>>, o)

CommandNames == {"start", "stop", "status"}
CmdUpdates == [message : BOOLEAN, user : {<<>>} \cup {<<u>> : u \in Users}]
NoCmd == [name |-> "none", update |-> [message |-> FALSE, user |-> <<>>],
          result |-> CmdReturns(TRUE)]

\* one update dispatched to its CommandHandler
CmdCall ==
    \E name \in CommandNames, update \in CmdUpdates, exported \in BOOLEAN, o \in Outcomes :
        LET result == IF name = "start" THEN StartCommand(update, BOT_IS_ACTIVE, o)
                      ELSE IF name = "stop" THEN StopCommand(update, BOT_IS_ACTIVE, o)
                      ELSE StatusCommand(update, BOT_IS_ACTIVE, exported, o)
        IN  /\ cmd' = [name |-> name, update |-> update, result |-> result]
            /\ BOT_IS_ACTIVE' = result.BOT_IS_ACTIVE
            /\ UNCHANGED <<cfgVars, task, replies, modSends, san, cls, reaction,
                           deletes, esc, cmdTask>>

\* start_command and stop_command as coroutines: one step from the arrival
\* of the update to the await of reply_text, one for its return.  pc names
\* the await: refusing (lines 28, 69), confirming (lines 44, 85)
Cmds == {"c1", "c2", "c3"}
NewCmdTask ==
    [pc |-> "new", name |-> "", user_id |-> 0, old_status |-> TRUE,
     reply_ok |-> TRUE]

\* old_status read as the default of the lookup instead of the stored flag
OldStatus_default(flag) == TRUE

\* old_status = context.bot_data.get("BOT_IS_ACTIVE", True); the key is set
\* at startup
OldStatus(flag) == flag

\* lines 8-43 / 49-84: up to the await of reply_text; the read of line 33 /
\* 74 and the write of line 34 / 75 have no await between them
command_begins(c) ==
    /\ cmdTask[c].pc = "new"
    /\ \E name \in {"start", "stop"}, user_id \in Users :
         IF user_id \notin ADVISOR_USER_IDS
         THEN /\ cmdTask' = [cmdTask EXCEPT ![c] =
                     [@ EXCEPT !.pc = "refusing", !.name = name, !.user_id = user_id]]
              /\ UNCHANGED BOT_IS_ACTIVE
         ELSE /\ cmdTask' = [cmdTask EXCEPT ![c] =
                     [@ EXCEPT !.pc = "confirming", !.name = name, !.user_id = user_id,
                               !.old_status = OldStatus(BOT_IS_ACTIVE)]]
              /\ BOT_IS_ACTIVE' = (name = "start")
    /\ UNCHANGED <<cfgVars, task, replies, modSends, san, cls, reaction, deletes,
                   cmd, esc>>

\* reply_text returns or raises at lines 28, 44, 69, 85; nothing follows it
command_reply_returns(c) ==
    /\ cmdTask[c].pc \in {"refusing", "confirming"}
    /\ \E o \in Outcomes :
         cmdTask' = [cmdTask EXCEPT ![c] =
             [@ EXCEPT !.pc = IF o.ok THEN "done" ELSE "raised", !.reply_ok = o.ok]]
    /\ UNCHANGED <<cfgVars, BOT_IS_ACTIVE, task, replies, modSends, san, cls,
                   reaction, deletes, cmd, esc>>

-----------------------------------------------------------------------------
(* bot.handlers.reactions: the retraction handler *)

\* the platform's thumbs-down and heart emoji
ThumbsDown == "U+1F44E"
Heart == "U+2764"
\* the literal of line 20: the four characters U+00F0 U+0178 U+2018 U+017D,
\* the bytes of U+1F44E read as Windows-1252
downvote_emoji == "U+00F0 U+0178 U+2018 U+017D"

ReactionTypeEmoji(emoji) == [type |-> "emoji", emoji |-> emoji]
ReactionTypeCustomEmoji == [type |-> "custom_emoji", emoji |-> ""]

\* is_new_downvote, lines 21-24: only new_reaction is looked at
is_new_downvote(r) ==
    \E i \in DOMAIN r.new_reaction :
        r.new_reaction[i].type = "emoji" /\ r.new_reaction[i].emoji = downvote_emoji

ReactionIgnored(result, source) ==
    [result |-> result, source |-> source, requests |-> <<>>, raised |-> FALSE]

\* the delete without the try around it: the exception leaves the handler
DeleteExcept_missing(o) == ~o.ok

\* the try around delete_message, lines 48-70: the except clause logs the
\* failure and the function returns
DeleteExcept(o) == FALSE

_process_downvote(r, source, o) ==
    IF ~is_new_downvote(r) THEN ReactionIgnored("not a new downvote", source)
    ELSE IF MODERATOR_CHAT_ID # <<>> /\ <<r.chat_id>> = MODERATOR_CHAT_ID
    THEN ReactionIgnored("moderator chat", source)
    ELSE [result |-> IF o.ok THEN "deleted" ELSE "delete failed", source |-> source,
          requests |-> <<[chat_id |-> r.chat_id, message_id |-> r.message_id]>>,
          raised |-> DeleteExcept(o)]

\* handle_reaction_downvote returning when the reaction has no user
ReactionRun_ignores_anonymous(update, o) ==
    IF update.message_reaction = <<>> THEN ReactionIgnored("no reaction", "")
    ELSE LET r == update.message_reaction[1]
         IN  IF r.user = <<>> THEN ReactionIgnored("no user", "")
             ELSE IF r.user[1] \notin ADVISOR_USER_IDS
             THEN ReactionIgnored("non-advisor", "")
             ELSE _process_downvote(r, "user_downvote", o)

\* handle_reaction_downvote, lines 82-139
ReactionRun(update, o) ==
    IF update.message_reaction = <<>> THEN ReactionIgnored("no reaction", "")
    ELSE LET r == update.message_reaction[1]
         IN  IF r.user = <<>> THEN _process_downvote(r, "chat_downvote", o)
             ELSE IF r.user[1] \notin ADVISOR_USER_IDS
             THEN ReactionIgnored("non-advisor", "")
             ELSE _process_downvote(r, "user_downvote", o)

RctChats == {10, 20}
RctMessages == {1, 2}
OldReactions ==
    {<<>>, <<ReactionTypeEmoji(downvote_emoji)>>, <<ReactionTypeEmoji(ThumbsDown)>>}
NewReactions ==
    OldReactions \cup {<<ReactionTypeEmoji(Heart), ReactionTypeEmoji(downvote_emoji)>>,
                       <<ReactionTypeCustomEmoji>>}
ReactionUpdates ==
    {[message_reaction |-> <<>>]} \cup
    {[message_reaction |-> <<r>>] :
        r \in [chat_id : RctChats, message_id : RctMessages,
               user : {<<>>} \cup {<<u>> : u \in Users},
               old_reaction : OldReactions, new_reaction : NewReactions]}
NoReaction == [update |-> [message_reaction |-> <<>>], result |-> "", source |-> "",
               raised |-> FALSE]

\* one message_reaction update dispatched to handle_reaction_downvote
handle_reaction_downvote ==
    /\ Len(deletes) < MaxDeletes
    /\ \E update \in ReactionUpdates, o \in Outcomes :
         LET run == ReactionRun(update, o)
         IN  /\ reaction' = [update |-> update, result |-> run.result,
                             source |-> run.source, raised |-> run.raised]
             /\ deletes' = deletes \o run.requests
    /\ UNCHANGED <<cfgVars, BOT_IS_ACTIVE, task, replies, modSends, san, cls,
                   cmd, esc, cmdTask>>

-----------------------------------------------------------------------------
(* The pipeline: concurrent message handlers and admin commands            *)

\* the configurations the process is started with
Configs ==
    [ADVISOR_USER_IDS : {{1}}, MODERATOR_CHAT_ID : {<<>>, <<20>>},
     GROUP_CHAT_IDS : {{}, {10}}, client : {TRUE}, FAQ_CONTENT : {<<"f">>}]
    \cup
    [ADVISOR_USER_IDS : {{1}}, MODERATOR_CHAT_ID : {<<>>, <<20>>},
     GROUP_CHAT_IDS : {{}}, client : {FALSE}, FAQ_CONTENT : {<<"f">>}]
    \cup
    [ADVISOR_USER_IDS : {{1}}, MODERATOR_CHAT_ID : {<<>>, <<20>>},
     GROUP_CHAT_IDS : {{}}, client : {TRUE}, FAQ_CONTENT : {<<>>}]

SetConfig(c) ==
    /\ ADVISOR_USER_IDS = c.ADVISOR_USER_IDS
    /\ MODERATOR_CHAT_ID = c.MODERATOR_CHAT_ID
    /\ GROUP_CHAT_IDS = c.GROUP_CHAT_IDS
    /\ client = c.client
    /\ FAQ_CONTENT = c.FAQ_CONTENT

NoSan == [trace |-> <<>>]
NoEsc == [phase |-> "off", template |-> "", message_text |-> <<>>,
          llm_answer |-> <<>>, sent |-> <<>>,
          chat_id |-> 0, message_id |-> 0, link |-> <<>>]
NoCls == [phase |-> "off", user_message |-> <<>>, svc |-> NoCall,
          result |-> Return(<<>>), classification |-> ""]

\* main_polling / main_webhook up to the registration of the handlers: they
\* return early only when TELEGRAM_TOKEN is missing; a missing OPENAI_API_KEY
\* is logged as a warning and FAQ_CONTENT is not looked at
main_polling(telegram_token, openai_api_key, faq_content) == telegram_token

\* the process is serving: main_polling / main_webhook registered the
\* handlers and set bot_data["BOT_IS_ACTIVE"] = True, no update yet
Init ==
    /\ \E c \in Configs :
         /\ main_polling(TRUE, c.client, c.FAQ_CONTENT)
         /\ SetConfig(c)
    /\ BOT_IS_ACTIVE = TRUE
    /\ task = [m \in Msgs |-> NewTask]
    /\ replies = [m \in Msgs |-> <<>>]
    /\ modSends = [m \in Msgs |-> <<>>]
    /\ san = NoSan
    /\ cls = NoCls
    /\ reaction = NoReaction
    /\ deletes = <<>>
    /\ cmd = NoCmd
    /\ esc = NoEsc
    /\ cmdTask = [c \in Cmds |-> NewCmdTask]

Next ==
    \/ \E m \in Msgs : handle_message(m)
    \/ \E m \in Msgs : typing_indicator_returns(m)
    \/ \E m \in Msgs : reply_text_returns(m)
    \/ \E m \in Msgs : notify_returns(m)
    \/ \E m \in Msgs : failed_notify_returns(m)
    \/ \E u \in Users : start_command(u)
    \/ \E u \in Users : stop_command(u)
    \/ \E u \in Users : status_command(u)

Spec == Init /\ [][Next]_vars

\* The handler of one message followed to its end, with the admin commands
\* beside it: the handlers of different messages share nothing but the flag.
LiveMsgs == {"m1"}

LiveNext ==
    \/ \E m \in LiveMsgs : handle_message(m)
    \/ \E m \in LiveMsgs : typing_indicator_returns(m)
    \/ \E m \in LiveMsgs : reply_text_returns(m)
    \/ \E m \in LiveMsgs : notify_returns(m)
    \/ \E m \in LiveMsgs : failed_notify_returns(m)
    \/ \E u \in Users : start_command(u)
    \/ \E u \in Users : stop_command(u)

\* an awaited send_chat_action or send_message returns or raises (a timeout
\* at the latest) and the event loop then resumes the coroutine awaiting it
Fairness ==
    \A m \in LiveMsgs :
        /\ WF_vars(typing_indicator_returns(m))
        /\ WF_vars(notify_returns(m))
        /\ WF_vars(failed_notify_returns(m))

LiveSpec == Init /\ [][LiveNext]_vars /\ Fairness

-----------------------------------------------------------------------------
(* sanitize_markdown as a function: applied repeatedly to one input        *)

SanAlphabet == {"*", "_", BQ, "[", "]", "<", ">", "&", BS, "a"}

Quiet ==
    /\ BOT_IS_ACTIVE = TRUE
    /\ task = [m \in Msgs |-> NewTask]
    /\ replies = [m \in Msgs |-> <<>>]
    /\ modSends = [m \in Msgs |-> <<>>]
    /\ reaction = NoReaction
    /\ deletes = <<>>
    /\ cmd = NoCmd
    /\ cmdTask = [c \in Cmds |-> NewCmdTask]

SanInit ==
    /\ SetConfig(CHOOSE c \in Configs : c.client /\ c.FAQ_CONTENT # <<>>)
    /\ Quiet
    /\ esc = NoEsc
    /\ cls = NoCls
    /\ \E x \in SeqsUpTo(SanAlphabet, MaxLen) : san = [trace |-> <<x>>]

SanApply ==
    /\ Len(san.trace) <= MaxApply
    /\ san' = [san EXCEPT !.trace = Append(@, sanitize_markdown(@[Len(@)]))]
    /\ UNCHANGED <<cfgVars, BOT_IS_ACTIVE, task, replies, modSends, cls,
                   reaction, deletes, cmd, esc, cmdTask>>

SanSpec == SanInit /\ [][SanApply]_vars

-----------------------------------------------------------------------------
(* get_llm_response as a function: one call, any input, any service        *)

ClsCores ==
    {<<>>, NOT_A_QUESTION_MARKER, CANNOT_ANSWER_MARKER, <<"a">>, <<"a", " ", "b">>,
     NOT_A_QUESTION_MARKER \o <<"a">>}

ClsBehaviours ==
    {SvcText(pre \o core \o post) :
        pre \in SeqsUpTo(Whitespace, MaxPad), core \in ClsCores,
        post \in SeqsUpTo(Whitespace, MaxPad)}
    \cup {SvcNone, SvcNoChoice} \cup {SvcError(e) : e \in ServiceErrors}

ClsMessages == {<<>>, <<" ">>, <<"q">>}

ClsInit ==
    /\ ADVISOR_USER_IDS = {1} /\ MODERATOR_CHAT_ID = <<20>> /\ GROUP_CHAT_IDS = {}
    /\ client \in BOOLEAN
    /\ FAQ_CONTENT \in {<<>>, <<"f">>}
    /\ Quiet
    /\ esc = NoEsc
    /\ san = NoSan
    /\ \E user_message \in ClsMessages, svc \in ClsBehaviours :
         cls = [NoCls EXCEPT !.phase = "ready", !.user_message = user_message,
                             !.svc = svc]

ClsCall ==
    /\ cls.phase = "ready"
    /\ LET r == get_llm_response(cls.user_message, cls.svc)
       IN  cls' = [cls EXCEPT !.phase = IF r.raised THEN "raised" ELSE "returned",
                              !.result = r,
                              !.classification =
                                  IF r.raised THEN "" ELSE Classification(r.value)]
    /\ UNCHANGED <<cfgVars, BOT_IS_ACTIVE, task, replies, modSends, san,
                   reaction, deletes, cmd, esc, cmdTask>>

ClsSpec == ClsInit /\ [][ClsCall]_vars

-----------------------------------------------------------------------------
(* The admin commands as functions: one command after another *)

CmdInit ==
    /\ \E c \in Configs : SetConfig(c)
    /\ Quiet
    /\ esc = NoEsc
    /\ san = NoSan
    /\ cls = NoCls

CmdSpec == CmdInit /\ [][CmdCall]_vars

-----------------------------------------------------------------------------
(* The retraction handler: one reaction update after another *)

RctInit ==
    /\ \E c \in Configs :
         /\ c.client /\ c.FAQ_CONTENT # <<>> /\ c.GROUP_CHAT_IDS = {}
         /\ SetConfig(c)
    /\ Quiet
    /\ esc = NoEsc
    /\ san = NoSan
    /\ cls = NoCls

RctSpec == RctInit /\ [][handle_reaction_downvote]_vars

-----------------------------------------------------------------------------
(* The moderator messages: one message built for one question and answer  *)

\* the slices of the two message builders: message_text[:500] in
\* _notify_moderator_about_question, message_text[:300] and
\* llm_answer[:1000] in _handle_failed_response
QuestionLens == {1, 299, 300, 301, 499, 500, 501}
AnswerLens == {1, 999, 1000, 1001}

\* a text of n characters whose last character differs from the others
LongText(n, body, last) == [i \in 1..n |-> IF i = n THEN last ELSE body]

EscInit ==
    /\ SetConfig(CHOOSE c \in Configs :
            c.client /\ c.FAQ_CONTENT # <<>> /\ c.MODERATOR_CHAT_ID # <<>>
            /\ c.GROUP_CHAT_IDS = {})
    /\ Quiet
    /\ san = NoSan
    /\ cls = NoCls
    /\ \E template \in {"cannot_answer", "delivery_failed"},
          q \in QuestionLens, n \in AnswerLens :
         esc = [NoEsc EXCEPT !.phase = "ready", !.template = template,
                             !.message_text = LongText(q, "q", "?"),
                             !.llm_answer = LongText(n, "a", ".")]

\* the text handed to bot.send_message by _notify_moderator_about_question
\* (cannot_answer) or by _handle_failed_response (delivery_failed)
EscSend ==
    /\ esc.phase = "ready"
    /\ \E o \in Outcomes :
         LET t == [NewTask EXCEPT !.message_text = esc.message_text,
                                  !.llm_answer = esc.llm_answer]
         IN  esc' = [esc EXCEPT !.phase = IF o.ok THEN "sent" ELSE "failed",
                                !.sent = <<ModeratorMessage(t, esc.template, o)>>]
    /\ UNCHANGED <<cfgVars, BOT_IS_ACTIVE, task, replies, modSends, san, cls,
                   reaction, deletes, cmd, cmdTask>>

EscSpec == EscInit /\ [][EscSend]_vars

-----------------------------------------------------------------------------
(* The deep link of the cannot-answer message: _build_message_link applied *)
(* to one chat id and message id                                           *)

Digits == <<"0", "1", "2", "3", "4", "5", "6", "7", "8", "9">>

\* str(n) of a non-negative int: its decimal digits, most significant first
RECURSIVE StrNat(_)
StrNat(n) == IF n < 10 THEN <<Digits[n + 1]>>
             ELSE StrNat(n \div 10) \o <<Digits[(n % 10) + 1]>>

\* str(n) of an int
str(n) == IF n < 0 THEN <<"-">> \o StrNat(-n) ELSE StrNat(n)

\* str.startswith(prefix)
startswith_str(s, prefix) ==
    Len(s) >= Len(prefix) /\ SubSeq(s, 1, Len(prefix)) = prefix

LinkBase == "https://t.me/c/"

\* the link builder without the "-100" case
_build_message_link_unstripped(chat_id, message_id) ==
    <<LinkBase>> \o str(chat_id) \o <<"/">> \o str(message_id)

_build_message_link(chat_id, message_id) ==
    LET chat_id_str == str(chat_id)
    IN  IF startswith_str(chat_id_str, <<"-", "1", "0", "0">>)
        THEN <<LinkBase>> \o SubSeq(chat_id_str, 5, Len(chat_id_str))
                 \o <<"/">> \o str(message_id)
        ELSE <<LinkBase>> \o str(chat_id) \o <<"/">> \o str(message_id)

\* chat ids around the "-100" prefix: with it, with a shorter or different
\* prefix, positive, and the bare -100
LinkChats ==
    (-1005..-995) \cup (-102..-98) \cup (-10012..-10009)
        \cup {-100123, -2100, -1, 0, 7, 100, 1001, 10012}
LinkMessages == {1, 42, 100}

LinkInit ==
    /\ SetConfig(CHOOSE c \in Configs :
            c.client /\ c.FAQ_CONTENT # <<>> /\ c.MODERATOR_CHAT_ID # <<>>
            /\ c.GROUP_CHAT_IDS = {})
    /\ Quiet
    /\ san = NoSan
    /\ cls = NoCls
    /\ \E chat_id \in LinkChats, message_id \in LinkMessages :
         esc = [NoEsc EXCEPT !.phase = "ready", !.template = "cannot_answer",
                             !.chat_id = chat_id, !.message_id = message_id]

\* _notify_moderator_about_question, line 215: the link is built
LinkBuild ==
    /\ esc.phase = "ready"
    /\ esc' = [esc EXCEPT !.phase = "built",
                          !.link = _build_message_link(esc.chat_id, esc.message_id)]
    /\ UNCHANGED <<cfgVars, BOT_IS_ACTIVE, task, replies, modSends, san, cls,
                   reaction, deletes, cmd, cmdTask>>

LinkSpec == LinkInit /\ [][LinkBuild]_vars

-----------------------------------------------------------------------------
(* Concurrent admin commands *)

CmdTaskInit ==
    /\ \E c \in Configs : SetConfig(c)
    /\ Quiet
    /\ san = NoSan
    /\ cls = NoCls
    /\ esc = NoEsc

CmdTaskNext ==
    \/ \E c \in Cmds : command_begins(c)
    \/ \E c \in Cmds : command_reply_returns(c)

CmdTaskSpec == CmdTaskInit /\ [][CmdTaskNext]_vars

-----------------------------------------------------------------------------
(* The retraction handler next to the admin commands: the flag goes off and *)
(* on while reactions arrive for messages no handle_message ever saw, with  *)
(* a chat allowlist configured                                              *)

RctFlagInit ==
    /\ \E c \in Configs :
         /\ c.client /\ c.FAQ_CONTENT # <<>> /\ c.GROUP_CHAT_IDS # {}
         /\ SetConfig(c)
    /\ Quiet
    /\ esc = NoEsc
    /\ san = NoSan
    /\ cls = NoCls

RctFlagNext ==
    \/ handle_reaction_downvote
    \/ \E u \in Users : start_command(u)
    \/ \E u \in Users : stop_command(u)

RctFlagSpec == RctFlagInit /\ [][RctFlagNext]_vars

-----------------------------------------------------------------------------
(* Properties *)

Handled(m) == task[m].pc # "new"
Finished(m) == task[m].pc = "done"
Methods == <<"markdown", "sanitized_markdown", "plain_text">>
Exhausted(m) ==
    /\ Len(task[m].delivery_attempts) = 3
    /\ \A i \in 1..3 : ~task[m].delivery_attempts[i].success
Delivered(m) ==
    \E i \in DOMAIN task[m].delivery_attempts : task[m].delivery_attempts[i].success

\* C1: a message whose sender is a privileged operator never reaches the
\* classifier and never has a delivery attempted for it, whatever the flag
\* and the chat.
C1_OperatorNeverTriggers ==
    \A m \in Msgs :
        (Handled(m) /\ task[m].user_id \in ADVISOR_USER_IDS) =>
            /\ task[m].llm_calls = <<>>
            /\ task[m].delivery_attempts = <<>>
            /\ replies[m] = <<>>
            /\ task[m].pc \notin {"typing", "send"}

\* C1 witness: an operator's plain question, in an allowed chat, was handled
\* and ignored as an operator message.
C1_Witness ==
    \E m \in Msgs :
        /\ Finished(m)
        /\ task[m].user_id \in ADVISOR_USER_IDS
        /\ task[m].gate = "operator message"
        /\ task[m].message_text = <<"q">>

\* C2: no call of the classifier starts while the Activation Flag is false,
\* under any interleaving of message handling with the admin commands.
C2_ClassifierOnlyWhileActive ==
    \A m \in Msgs :
        \A i \in DOMAIN task[m].llm_calls : task[m].llm_calls[i] = TRUE

\* C3: the gate decides by the first matching check, in the order chat
\* allowlist, operator, inactive flag, command or empty text; the message
\* proceeds only when no check matches.
C3_GateOrder ==
    [][\A m \in Msgs :
        (task[m].pc = "new" /\ task'[m].pc # "new" /\ task'[m].text # <<>>) =>
            LET t  == task'[m]
                c1 == GROUP_CHAT_IDS # {} /\ t.chat_id \notin GROUP_CHAT_IDS
                c2 == t.user_id \in ADVISOR_USER_IDS
                c3 == ~BOT_IS_ACTIVE
                c4 == t.message_text = <<>> \/ t.message_text[1] = "/"
            IN  /\ c1 => t.gate = "unauthorized chat"
                /\ (~c1 /\ c2) => t.gate = "operator message"
                /\ (~c1 /\ ~c2 /\ c3) => t.gate = "inactive"
                /\ (~c1 /\ ~c2 /\ ~c3 /\ c4) => t.gate = "command or empty"
                /\ (c1 \/ c2 \/ c3 \/ c4) => t.pc = "done"
                /\ ~(c1 \/ c2 \/ c3 \/ c4) => (t.gate = "proceed" /\ t.pc = "typing")
      ]_vars

\* C3 witness: a message that matches several checks at once (an operator's
\* command from a chat outside the allowlist, while the flag is false) was
\* ignored for the first of them.
C3_Witness ==
    \E m \in Msgs :
        /\ task[m].gate = "unauthorized chat"
        /\ task[m].user_id \in ADVISOR_USER_IDS
        /\ task[m].message_text = <<"/", "s">>
        /\ ~BOT_IS_ACTIVE

IsAnswerText(v) ==
    /\ v # <<>>
    /\ strip(v) = v
    /\ v # NOT_A_QUESTION_MARKER
    /\ v # CANNOT_ANSWER_MARKER

\* C4: get_llm_response is total: for any input and any behaviour of the
\* completion service it returns, without raising, the not-a-question
\* marker, the cannot-answer marker or a non-empty answer text.
C4_ClassifyTotal ==
    cls.phase \notin {"off", "ready"} =>
        /\ cls.phase = "returned"
        /\ ~cls.result.raised
        /\ \/ cls.result.value = NOT_A_QUESTION_MARKER /\ cls.classification = "NotQuestion"
           \/ cls.result.value = CANNOT_ANSWER_MARKER /\ cls.classification = "CannotAnswer"
           \/ IsAnswerText(cls.result.value) /\ cls.classification = "Answered"

\* C4 witness: the completion service was called and raised, and the call
\* of get_llm_response has ended.
C4_Witness ==
    /\ cls.phase \notin {"off", "ready"}
    /\ ServiceCalled(cls.user_message)
    /\ cls.svc.kind \in {"error", "nochoices"}

\* C5: a raw completion output maps to CannotAnswer when empty or all
\* whitespace, to NotQuestion or CannotAnswer when its trimmed text is the
\* respective marker, otherwise to Answered with the trimmed text; a missing
\* content or any error of the service maps to CannotAnswer.
C5_OutputMapping ==
    (cls.phase \notin {"off", "ready"} /\ ServiceCalled(cls.user_message)) =>
        LET trimmed == strip(cls.svc.content)
        IN  IF cls.svc.kind # "text" THEN cls.classification = "CannotAnswer"
            ELSE IF trimmed = <<>> THEN cls.classification = "CannotAnswer"
            ELSE IF trimmed = NOT_A_QUESTION_MARKER THEN cls.classification = "NotQuestion"
            ELSE IF trimmed = CANNOT_ANSWER_MARKER THEN cls.classification = "CannotAnswer"
            ELSE cls.classification = "Answered" /\ cls.result.value = trimmed

\* C5 witness: the service answered with a marker padded by whitespace, and
\* the call has returned.
C5_Witness ==
    /\ cls.phase = "returned"
    /\ ServiceCalled(cls.user_message)
    /\ cls.svc.kind = "text"
    /\ cls.svc.content # strip(cls.svc.content)
    /\ strip(cls.svc.content) = NOT_A_QUESTION_MARKER

\* C6: the delivery attempts of a message are made in the order rich,
\* sanitized, plain, each at most once, and none is made after a success.
C6_DeliveryOrder ==
    \A m \in Msgs :
        LET a == task[m].delivery_attempts
        IN  /\ Len(a) <= 3
            /\ Len(replies[m]) = Len(a)
            /\ \A i \in DOMAIN a :
                /\ a[i].method = Methods[i]
                /\ a[i].success = replies[m][i].ok
                /\ i < Len(a) => ~a[i].success
            /\ task[m].pc = "send" =>
                /\ \A i \in DOMAIN a : ~a[i].success
                /\ Len(a) < 3
                /\ task[m].method = Methods[Len(a) + 1]

\* C6 witness: rich failed, sanitized succeeded, and the handler ended
\* without a third attempt.
C6_Witness ==
    \E m \in Msgs :
        /\ Finished(m)
        /\ Len(task[m].delivery_attempts) = 2
        /\ ~task[m].delivery_attempts[1].success
        /\ task[m].delivery_attempts[2].success

\* C7: sanitize_markdown is idempotent: applying it to its own result
\* changes nothing.
C7_SanitizeIdempotent ==
    Len(san.trace) >= 3 => san.trace[3] = san.trace[2]

C10_DeliveredQuietly ==
    \A m \in Msgs :
        Delivered(m) =>
            /\ Cardinality({i \in DOMAIN replies[m] : replies[m][i].ok}) = 1
            /\ modSends[m] = <<>>
            /\ task[m].pc = "done"

\* C10 witness: rich failed and sanitized succeeded with a text that the
\* sanitizer changed, with a moderation channel configured.
C10_Witness ==
    \E m \in Msgs :
        /\ Finished(m)
        /\ MODERATOR_CHAT_ID # <<>>
        /\ Len(replies[m]) = 2
        /\ ~replies[m][1].ok /\ replies[m][2].ok
        /\ replies[m][2].text = sanitize_markdown(task[m].llm_answer)
        /\ replies[m][2].text # task[m].llm_answer

\* C11: a message classified NotQuestion gets no reply in its chat and
\* nothing is sent to the moderation channel for it; its handler ends there.
C11_NotQuestionSilent ==
    \A m \in Msgs :
        task[m].classification = "NotQuestion" =>
            /\ replies[m] = <<>>
            /\ modSends[m] = <<>>
            /\ task[m].pc = "done"

\* C11 witness: the classifier returned the not-a-question marker for a
\* message while a moderation channel is configured, and the handler ended.
C11_Witness ==
    \E m \in Msgs :
        /\ Finished(m)
        /\ task[m].classification = "NotQuestion"
        /\ Len(task[m].llm_calls) = 1
        /\ MODERATOR_CHAT_ID # <<>>

\* C12: a message classified CannotAnswer, or whose classification raised,
\* has no reply_text call at all; every reply any message gets carries the
\* answer or its sanitized form, never a marker or an error text; and when
\* every strategy failed the requester received nothing.
C12_FailureNotShownToUser ==
    \A m \in Msgs :
        /\ (task[m].classification = "CannotAnswer"
              \/ task[m].ctx \in {"except", "handler_except"}) => replies[m] = <<>>
        /\ \A i \in DOMAIN replies[m] :
              /\ task[m].classification = "Answered"
              /\ replies[m][i].text \in
                    {task[m].llm_answer, sanitize_markdown(task[m].llm_answer)}
        /\ Exhausted(m) => \A i \in DOMAIN replies[m] : ~replies[m][i].ok

\* C12 witness: one finished message was classified CannotAnswer after the
\* completion service raised, another had its three sends fail, and each was
\* reported to the moderation channel.
C12_Witness ==
    \E m1, m2 \in Msgs :
        /\ Finished(m1) /\ task[m1].classification = "CannotAnswer"
        /\ task[m1].svc.kind = "error"
        /\ Len(modSends[m1]) = 1
        /\ Finished(m2) /\ Exhausted(m2)
        /\ Len(modSends[m2]) = 1

\* the reaction update handled by the step that ends in the primed state
Handled_r == reaction'.update.message_reaction[1]
HasReaction == reaction'.update.message_reaction # <<>>
IsDownvote(x) == x.type = "emoji" /\ x.emoji \in {ThumbsDown, downvote_emoji}
\* a downvote is in new_reaction and was not in old_reaction
NewlyAdded(r) ==
    \E i \in DOMAIN r.new_reaction :
        /\ IsDownvote(r.new_reaction[i])
        /\ \A j \in DOMAIN r.old_reaction : r.old_reaction[j] # r.new_reaction[i]
InModeratorChat(r) == MODERATOR_CHAT_ID # <<>> /\ <<r.chat_id>> = MODERATOR_CHAT_ID
IsOperator(user) == user # <<>> /\ user[1] \in ADVISOR_USER_IDS

\* C13: a step of the retraction handler issues a delete request only when
\* the reaction's actor is a privileged operator, a downvote is newly added
\* by the update, and the chat is not the moderation channel.
C13_DeleteOnlyWhen ==
    [][deletes' # deletes =>
          /\ HasReaction
          /\ IsOperator(Handled_r.user)
          /\ NewlyAdded(Handled_r)
          /\ ~InModeratorChat(Handled_r)]_vars

C15_NoRetrigger ==
    [][(/\ HasReaction
        /\ IsOperator(Handled_r.user)
        /\ (reaction'.update = reaction.update \/ ~NewlyAdded(Handled_r)))
          => deletes' = deletes]_vars

\* C16: an update in which a privileged operator newly adds the platform's
\* thumbs-down, outside the moderation channel, issues exactly one delete
\* request, for the chat and message of the reaction.
C16_ExactlyOneDelete ==
    [][(/\ HasReaction
        /\ IsOperator(Handled_r.user)
        /\ ReactionTypeEmoji(ThumbsDown) \in
              {Handled_r.new_reaction[i] : i \in DOMAIN Handled_r.new_reaction}
        /\ ReactionTypeEmoji(ThumbsDown) \notin
              {Handled_r.old_reaction[i] : i \in DOMAIN Handled_r.old_reaction}
        /\ ~InModeratorChat(Handled_r))
          => deletes' = Append(deletes, [chat_id |-> Handled_r.chat_id,
                                         message_id |-> Handled_r.message_id])]_vars

\* the admin command handled by the step that ends in the primed state
ByUser(c) == c.name \in CommandNames /\ c.update.message /\ c.update.user # <<>>
ByOperator(c) == ByUser(c) /\ IsOperator(c.update.user)
ByNonOperator(c) == ByUser(c) /\ ~IsOperator(c.update.user)

\* C17: an admin command issued by a user who is not a privileged operator
\* makes exactly one reply_text call, the fixed refusal, and leaves the flag,
\* the configuration and everything else as they were.
C17_NonOperatorRefused ==
    [][ByNonOperator(cmd') =>
          /\ Len(cmd'.result.reply) = 1
          /\ cmd'.result.reply[1].text = RefusalText
          /\ cmd'.result.reply[1].status_info = <<>>
          /\ BOT_IS_ACTIVE' = BOT_IS_ACTIVE
          /\ UNCHANGED <<cfgVars, task, replies, modSends,
                         deletes, esc, cmdTask>>]_vars

\* C17 witness: after an operator switched the bot off, a non-operator's
\* /start was refused and the flag is still false.
C17_Witness ==
    /\ cmd.name = "start"
    /\ ByNonOperator(cmd)
    /\ cmd.result.reply[1].text = RefusalText
    /\ ~BOT_IS_ACTIVE

\* C18: the flag starts true; a step is an operator's /start and leaves it
\* true, or an operator's /stop and leaves it false, whatever it was before
\* (so a second application changes nothing), or any other step and leaves
\* it as it was: the flag is the value of the most recent operator switch,
\* or true if there was none.
C18_FlagFollowsLastSwitch ==
    /\ BOT_IS_ACTIVE = TRUE
    /\ [][IF ByOperator(cmd') /\ cmd'.name = "start" THEN BOT_IS_ACTIVE' = TRUE
          ELSE IF ByOperator(cmd') /\ cmd'.name = "stop" THEN BOT_IS_ACTIVE' = FALSE
          ELSE BOT_IS_ACTIVE' = BOT_IS_ACTIVE]_vars

\* C18 witness: the flag is false because an operator's /stop was the last
\* switch, although a /status by someone was handled after it.
C18_Witness ==
    /\ ~BOT_IS_ACTIVE
    /\ cmd.name = "status"
    /\ ByUser(cmd)

\* C19: /status changes nothing, whoever sends it, and a report sent to an
\* operator carries as its active value the flag of that moment.
C19_StatusReadOnly ==
    [][cmd'.name = "status" =>
          /\ BOT_IS_ACTIVE' = BOT_IS_ACTIVE
          /\ UNCHANGED <<cfgVars, task, replies, modSends,
                         deletes, esc, cmdTask>>
          /\ \A i \in DOMAIN cmd'.result.reply :
                LET reply == cmd'.result.reply[i]
                IN  IF ByOperator(cmd')
                    THEN /\ reply.status_info # <<>>
                         /\ reply.status_info[1].bot_active = BOT_IS_ACTIVE
                    ELSE reply.text = RefusalText /\ reply.status_info = <<>>]_vars

\* C19 witness: an operator's /status was answered with a report that says
\* inactive while the flag is false.
C19_Witness ==
    /\ cmd.name = "status"
    /\ ByOperator(cmd)
    /\ ~BOT_IS_ACTIVE
    /\ Len(cmd.result.reply) = 1
    /\ cmd.result.reply[1].ok
    /\ ~cmd.result.reply[1].status_info[1].bot_active

\* C20: no handler ends by raising when an outbound call fails: an admin
\* command handler whose reply_text failed has returned all the same, and
\* handle_message never ends raised.
C20_NoExceptionCrosses ==
    /\ \A i \in DOMAIN cmd.result.reply :
          ~cmd.result.reply[i].ok => ~cmd.result.raised
    /\ \A m \in Msgs : task[m].pc # "raised"

\* C21: a step in which a send to the moderation channel returns, failed or
\* not, ends the handler of that message without raising, is the only send
\* to the channel for that message, and leaves what the requester got as
\* it was; a failed send is never followed by another.
C21_EscalationBestEffort ==
    [][\A m \in Msgs :
          modSends'[m] # modSends[m] =>
              /\ modSends[m] = <<>>
              /\ Len(modSends'[m]) = 1
              /\ task'[m].pc = "done"
              /\ replies'[m] = replies[m]]_vars

\* C21 witness: the send of a cannot-answer message failed for one message
\* and the send of a delivery-failed report failed for another; both
\* handlers are done.
C21_Witness ==
    \E m1, m2 \in Msgs :
        /\ Finished(m1) /\ Len(modSends[m1]) = 1
        /\ modSends[m1][1].template = "cannot_answer" /\ ~modSends[m1][1].ok
        /\ Finished(m2) /\ Len(modSends[m2]) = 1
        /\ modSends[m2][1].template = "delivery_failed" /\ ~modSends[m2][1].ok

\* C22: with no moderation channel configured nothing is ever sent to a
\* moderator and no handler waits for such a send or ends raised; a message
\* classified CannotAnswer, or whose three sends failed, has its handler done.
C22_NoChannelNoEscalation ==
    MODERATOR_CHAT_ID = <<>> =>
        \A m \in Msgs :
            /\ modSends[m] = <<>>
            /\ task[m].pc \notin {"notify", "notify_failed", "raised"}
            /\ task[m].classification = "CannotAnswer" => Finished(m)
            /\ Exhausted(m) => Finished(m)

\* C22 witness: without a moderation channel, one message was classified
\* CannotAnswer and another had its three sends fail; both handlers are done.
C22_Witness ==
    /\ MODERATOR_CHAT_ID = <<>>
    /\ \E m1, m2 \in Msgs :
        /\ Finished(m1) /\ task[m1].classification = "CannotAnswer"
        /\ Finished(m2) /\ Exhausted(m2)

\* C23 as stated: every message classified CannotAnswer is eventually
\* followed by a send to a moderation channel.
C23_AlwaysEscalated ==
    \A m \in LiveMsgs :
        (task[m].classification = "CannotAnswer") ~> (modSends[m] # <<>>)

\* C23 amended: with a moderation channel configured, every message
\* classified CannotAnswer is eventually followed by one send of the
\* cannot-answer message to that channel.
C23_EscalatedWhenConfigured ==
    \A m \in LiveMsgs :
        (MODERATOR_CHAT_ID # <<>> /\ task[m].classification = "CannotAnswer")
            ~> (Len(modSends[m]) = 1 /\ modSends[m][1].template = "cannot_answer")

\* C23 witness: the completion gave only whitespace, the message was
\* classified CannotAnswer, and the cannot-answer message was sent to the
\* configured channel.
C23_Witness ==
    \E m \in LiveMsgs :
        /\ task[m].classification = "CannotAnswer"
        /\ task[m].svc = SvcText(<<" ">>)
        /\ MODERATOR_CHAT_ID # <<>>
        /\ Len(modSends[m]) = 1 /\ modSends[m][1].ok

\* C24: every message that reached the classifier had the completion
\* service invoked exactly once for it, with no retry, and got exactly one
\* classification.
C24_ServiceInvokedOnce ==
    \A m \in Msgs :
        task[m].llm_calls # <<>> =>
            /\ Len(task[m].llm_calls) = 1
            /\ task[m].svc # NoCall
            /\ task[m].classification \in {"NotQuestion", "CannotAnswer", "Answered"}

C26_ConfigErrorFatal ==
    (~client \/ FAQ_CONTENT = <<>>) => \A m \in Msgs : ~Handled(m)

\* C27: the cannot-answer message carries the whole question and the
\* delivery-failed message the whole answer, whatever their lengths.
C27_PayloadUntruncated ==
    esc.sent # <<>> =>
        /\ esc.template = "cannot_answer" => esc.sent[1].question = esc.message_text
        /\ esc.template = "delivery_failed" => esc.sent[1].answer = esc.llm_answer

\* C28: the first reply of a message is the answer as classified, sent with
\* parse_mode Markdown; the second is sanitize_markdown of that answer, sent
\* with parse_mode Markdown; the third is the answer itself, unsanitized,
\* sent without a parse mode.
C28_StrategyPayloads ==
    \A m \in Msgs :
        /\ Len(replies[m]) <= 3
        /\ \A i \in DOMAIN replies[m] :
            /\ replies[m][i].text =
                  IF i = 2 THEN sanitize_markdown(task[m].llm_answer)
                  ELSE task[m].llm_answer
            /\ replies[m][i].parse_mode = IF i = 3 THEN "None" ELSE "Markdown"

\* C28 witness: all three strategies were used for an answer that
\* sanitizing changes, and the plain reply went through with the original
\* text.
C28_Witness ==
    \E m \in Msgs :
        /\ Len(replies[m]) = 3
        /\ sanitize_markdown(task[m].llm_answer) # task[m].llm_answer
        /\ replies[m][2].text # replies[m][1].text
        /\ replies[m][3].ok /\ replies[m][3].text = replies[m][1].text

\* C29: the recorded attempts follow the replies one for one, in the order
\* markdown, sanitized_markdown, plain_text, and an attempt is a failure
\* exactly when its send raised, carrying the error string then; once
\* delivery has finished there are one to three attempts, every attempt
\* before the last is a failure with an error string, and the answer counts
\* as delivered exactly when the last attempt is a success.
C29_AttemptsRecorded ==
    \A m \in Msgs :
        LET att == task[m].delivery_attempts
            n   == Len(att)
        IN  /\ n = Len(replies[m])
            /\ \A i \in 1..n :
                /\ att[i].method = Methods[i]
                /\ att[i].success = replies[m][i].ok
                /\ att[i].success => att[i].error = <<>>
                /\ ~att[i].success => att[i].error = ErrorMsg(replies[m][i].exc)
            /\ (task[m].classification = "Answered" /\ task[m].pc # "send") =>
                /\ n \in 1..3
                /\ \A i \in 1..(n - 1) : ~att[i].success /\ att[i].error # <<>>
                /\ (_handle_successful_answer(att) = "delivered") = att[n].success
                /\ ~att[n].success => n = 3

\* C29 witness: two sends raised and the third went through: three attempts
\* are recorded, the first two as failures with their error strings, the
\* last as the success.
C29_Witness ==
    \E m \in Msgs :
        LET att == task[m].delivery_attempts
        IN  /\ Finished(m) /\ Len(att) = 3
            /\ ~replies[m][1].ok /\ ~replies[m][2].ok /\ replies[m][3].ok
            /\ att[1].error # <<>> /\ att[2].error # <<>> /\ att[3].success

\* the positions of c in x
Positions(x, c) == {j \in DOMAIN x : x[j] = c}
\* whether the character at position i of x is to be escaped
Escaped(x, i) ==
    IF x[i] \in {"*", "_", BQ}
    THEN Cardinality(Positions(x, x[i])) % 2 = 1
         /\ \A j \in Positions(x, x[i]) : j <= i
    ELSE IF x[i] \in {"[", "]"}
    THEN Cardinality(Positions(x, "[")) # Cardinality(Positions(x, "]"))
    ELSE x[i] \in {"<", ">", "&"}
\* x with a backslash put before each position to be escaped, from i on
RECURSIVE EscapedFrom(_, _)
EscapedFrom(x, i) ==
    IF i > Len(x) THEN <<>>
    ELSE (IF Escaped(x, i) THEN <<BS, x[i]>> ELSE <<x[i]>>) \o EscapedFrom(x, i + 1)

\* C30: the output of sanitize_markdown is its input with a backslash before
\* the last occurrence of each of the star, the underscore and the backquote
\* that occurs an odd number of times, before every bracket when the two
\* bracket counts differ, and before every angle bracket and ampersand, and
\* with nothing else changed; the empty string comes back unchanged.
C30_SanitizeTransform ==
    Len(san.trace) >= 2 => san.trace[2] = EscapedFrom(san.trace[1], 1)

\* C30 witness: three stars, of which only the last is escaped.
C30_Witness ==
    /\ Len(san.trace) >= 2
    /\ san.trace[1] = <<"*", "*", "*">>
    /\ san.trace[2] = <<"*", "*", BS, "*">>

\* the reasons for which the gate ignores a message
IgnoreReasons ==
    {"invalid", "unauthorized chat", "operator message", "inactive", "command or empty"}

\* C31: a message the gate ignored is finished at once and has caused no
\* typing indicator, no call of the classifier or the completion service, no
\* reply, no delivery attempt, no moderator send and no delete request.
C31_IgnoredNoOutbound ==
    \A m \in Msgs :
        task[m].gate \in IgnoreReasons =>
            /\ task[m].pc = "done"
            /\ task[m].llm_calls = <<>> /\ task[m].svc = NoCall
            /\ task[m].delivery_attempts = <<>>
            /\ replies[m] = <<>> /\ modSends[m] = <<>>
            /\ deletes = <<>>

\* C31 witness: a message was ignored because the flag was off, while
\* another message, let through earlier, got its reply.
C31_Witness ==
    \E m1, m2 \in Msgs :
        /\ task[m1].gate = "inactive" /\ Finished(m1) /\ replies[m1] = <<>>
        /\ task[m2].gate = "proceed" /\ replies[m2] # <<>>

\* the decimal digits of a chat id after its sign, as a number again
RECURSIVE DigitsValue(_)
DigitsValue(s) ==
    IF s = <<>> THEN 0
    ELSE 10 * DigitsValue(SubSeq(s, 1, Len(s) - 1))
         + (CHOOSE d \in 0..9 : Digits[d + 1] = s[Len(s)])

\* C32: the link is the base, then the chat id in decimal (without its first
\* four characters when these are "-100"), then a slash and the message id
\* in decimal.
C32_DeepLink ==
    esc.phase = "built" =>
        LET s    == str(esc.chat_id)
            pre  == Len(s) >= 4 /\ s[1] = "-" /\ s[2] = "1" /\ s[3] = "0" /\ s[4] = "0"
            path == IF pre THEN [i \in 1..(Len(s) - 4) |-> s[i + 4]] ELSE s
            tail == str(esc.message_id)
        IN  /\ esc.link = <<LinkBase>> \o path \o <<"/">> \o tail
            /\ DigitsValue(tail) = esc.message_id
            /\ esc.chat_id >= 0 => DigitsValue(s) = esc.chat_id
            /\ esc.chat_id < 0 => DigitsValue(Tail(s)) = -esc.chat_id

\* C32 witness: chat -1001 and message 42 give the link with the path 1/42.
C32_Witness ==
    /\ esc.phase = "built"
    /\ esc.chat_id = -1001 /\ esc.message_id = 42
    /\ esc.link = <<LinkBase, "1", "/", "4", "2">>

\* C33: a reaction whose delete request failed leaves the handler without an
\* exception, with that one request made and no second one, and with
\* nothing sent to the moderation channel.
C33_FailedDeleteLoggedOnly ==
    [][ reaction'.result = "delete failed" =>
          /\ ~reaction'.raised
          /\ Len(deletes') = Len(deletes) + 1
          /\ deletes'[Len(deletes')] =
                [chat_id |-> reaction'.update.message_reaction[1].chat_id,
                 message_id |-> reaction'.update.message_reaction[1].message_id]
          /\ modSends' = modSends ]_vars

\* C33 witness: an operator's downvote whose delete request failed: the one
\* request is on record and the handler returned.
C33_Witness ==
    /\ reaction.result = "delete failed" /\ ~reaction.raised
    /\ reaction.source = "user_downvote"
    /\ Len(deletes) = 1

\* C34: when the typing indicator returns, failed or not, the message goes
\* on to its one classification, and the state it is left in is, apart from
\* the recorded outcome of the indicator, the one a successful indicator
\* leaves it in: the same classification and the same delivery or
\* escalation step.
C34_TypingBestEffort ==
    [][ \A m \in Msgs :
          (task[m].pc = "typing" /\ task'[m].pc # "typing") =>
              /\ task'[m].pc # "raised"
              /\ Len(task'[m].llm_calls) = 1
              /\ task'[m].classification \in {"NotQuestion", "CannotAnswer", "Answered"}
              /\ [task'[m] EXCEPT !.typing_ok = TRUE]
                     = ProcessLlm(task[m], task'[m].svc) ]_vars

\* C34 witness: the typing indicator failed for two messages; one of them
\* was answered and delivered, the other escalated.
C34_Witness ==
    \E m1, m2 \in Msgs :
        /\ ~task[m1].typing_ok /\ Finished(m1) /\ Delivered(m1)
        /\ ~task[m2].typing_ok /\ Finished(m2)
        /\ task[m2].classification = "CannotAnswer" /\ modSends[m2] # <<>>

\* C35: the flag is looked at only when the message arrives: a message that
\* arrives while it is off is ignored, and a message already suspended at
\* the typing indicator, a delivery attempt or a moderator send takes its
\* next step while the flag is off just the same: the classifier is called,
\* the reply is sent, the moderator message is sent.
C35_FlagReadOnceAtGate ==
    [][ \A m \in Msgs :
          (~BOT_IS_ACTIVE /\ task'[m] # task[m]) =>
              /\ task[m].pc = "new" => task'[m].gate \in IgnoreReasons
              /\ task[m].pc = "typing" => Len(task'[m].llm_calls) = 1
              /\ task[m].pc = "send" => Len(replies'[m]) = Len(replies[m]) + 1
              /\ task[m].pc \in {"notify", "notify_failed"} =>
                    Len(modSends'[m]) = Len(modSends[m]) + 1 ]_vars

\* C35 witness: the flag is off; one message passed the gate, was classified
\* when the flag was already off and got its reply; another, classified when
\* the flag was already off, was escalated.
C35_Witness ==
    /\ ~BOT_IS_ACTIVE
    /\ \E m1, m2 \in Msgs :
        /\ task[m1].gate = "proceed" /\ task[m1].llm_calls = <<FALSE>>
        /\ replies[m1] # <<>> /\ replies[m1][1].ok
        /\ task[m2].gate = "proceed" /\ task[m2].llm_calls = <<FALSE>>
        /\ modSends[m2] # <<>> /\ modSends[m2][1].ok

\* C36: the step of a start or stop command that writes the flag is the
\* step that read the previous value, so the value it recorded is the value
\* the flag had immediately before the write, whatever other commands ran
\* before or are suspended meanwhile; the write is made in the step before
\* the confirmation reply returns, and the return of that reply, failed or
\* not, leaves the flag alone.
C36_AtomicReadWrite ==
    [][ \A c \in Cmds :
          /\ (cmdTask[c].pc = "new" /\ cmdTask'[c].pc = "confirming") =>
                /\ cmdTask'[c].old_status = BOT_IS_ACTIVE
                /\ BOT_IS_ACTIVE' = (cmdTask'[c].name = "start")
          /\ (cmdTask[c].pc = "confirming" /\ cmdTask'[c].pc # "confirming") =>
                BOT_IS_ACTIVE' = BOT_IS_ACTIVE ]_vars

\* C36 witness: a stop command found the flag on, a start command that ran
\* while the stop was still awaiting its reply found it off; the start's
\* confirmation failed, and the flag is on.
C36_Witness ==
    \E c1, c2 \in Cmds :
        /\ cmdTask[c1].name = "stop" /\ cmdTask[c1].pc = "confirming"
        /\ cmdTask[c1].old_status = TRUE
        /\ cmdTask[c2].name = "start" /\ cmdTask[c2].pc = "raised"
        /\ cmdTask[c2].old_status = FALSE
        /\ BOT_IS_ACTIVE

\* C37: in every reachable state, whatever the flag and the chat allowlist,
\* a start command of an operator can be handled and leaves the flag on.
C37_AlwaysReactivable ==
    \A u \in ADVISOR_USER_IDS : ENABLED (start_command(u) /\ BOT_IS_ACTIVE')

\* C37 witness: with a chat allowlist configured, a message was ignored
\* because the flag was off, and the flag is on again.
C37_Witness ==
    /\ GROUP_CHAT_IDS # {}
    /\ BOT_IS_ACTIVE
    /\ \E m \in Msgs : task[m].gate = "inactive"

\* C38: while the flag is off, and for a message no handle_message ever
\* saw, in a chat inside or outside the allowlist, an update in which a
\* privileged operator newly adds the platform's thumbs-down outside the
\* moderation channel issues a delete request for the chat and message of
\* the reaction.
C38_DeleteWhileInactive ==
    [][(/\ ~BOT_IS_ACTIVE
        /\ \A m \in Msgs : ~Handled(m)
        /\ HasReaction
        /\ IsOperator(Handled_r.user)
        /\ ReactionTypeEmoji(ThumbsDown) \in
              {Handled_r.new_reaction[i] : i \in DOMAIN Handled_r.new_reaction}
        /\ ReactionTypeEmoji(ThumbsDown) \notin
              {Handled_r.old_reaction[i] : i \in DOMAIN Handled_r.old_reaction}
        /\ ~InModeratorChat(Handled_r)
        /\ reaction' # reaction)
          => /\ deletes' # deletes
             /\ deletes'[Len(deletes')] = [chat_id |-> Handled_r.chat_id,
                                           message_id |-> Handled_r.message_id]]_vars

\* C39 as stated: with no completion client or an empty knowledge base, a
\* message that passed the gate gets the cannot-answer marker without a
\* call of the completion service, is not answered, and is escalated.
C39_UnavailableEscalated ==
    \A m \in Msgs :
        ((~client \/ FAQ_CONTENT = <<>>) /\ task[m].gate = "proceed" /\ Finished(m)) =>
            /\ task[m].svc = NoCall
            /\ task[m].llm_answer = CANNOT_ANSWER_MARKER
            /\ task[m].classification = "CannotAnswer"
            /\ replies[m] = <<>>
            /\ Len(modSends[m]) = 1

\* C39 amended: with no completion client or an empty knowledge base, a
\* message that passed the gate gets the cannot-answer marker without a
\* call of the completion service and is never answered; it is escalated
\* with one cannot-answer message when a moderation channel is configured,
\* and nothing is sent when none is.
C39_UnavailableNotAnswered ==
    \A m \in Msgs :
        ((~client \/ FAQ_CONTENT = <<>>) /\ task[m].gate = "proceed" /\ Finished(m)) =>
            /\ task[m].svc = NoCall
            /\ task[m].llm_answer = CANNOT_ANSWER_MARKER
            /\ task[m].classification = "CannotAnswer"
            /\ replies[m] = <<>>
            /\ IF MODERATOR_CHAT_ID = <<>> THEN modSends[m] = <<>>
               ELSE /\ Len(modSends[m]) = 1
                    /\ modSends[m][1].template = "cannot_answer"

\* C39 witness: the process has no completion client; a message passed the
\* gate and its cannot-answer message reached the moderation channel.
C39_Witness ==
    /\ ~client
    /\ \E m \in Msgs :
        /\ task[m].gate = "proceed" /\ Finished(m)
        /\ task[m].svc = NoCall /\ task[m].classification = "CannotAnswer"
        /\ Len(modSends[m]) = 1 /\ modSends[m][1].ok

\* the steps a handler still has before it at most, by its position
Rank(t) ==
    CASE t.pc = "new"    -> 6
      [] t.pc = "typing" -> 5
      [] t.pc = "send"   -> IF t.method = "markdown" THEN 4
                            ELSE IF t.method = "sanitized_markdown" THEN 3
                            ELSE 2
      [] t.pc \in {"notify", "notify_failed"} -> 1
      [] OTHER -> 0

\* the terminal outcomes that hold of a message
TerminalOutcomes(m) ==
    LET escalated == modSends[m] # <<>> /\ modSends[m][Len(modSends[m])].ok
        unanswered == task[m].classification = "CannotAnswer" \/ Exhausted(m)
    IN  {o \in {"ignored", "not-a-question", "delivered", "escalated", "dropped"} :
            CASE o = "ignored"        -> task[m].gate \in IgnoreReasons
              [] o = "not-a-question" -> task[m].classification = "NotQuestion"
              [] o = "delivered"      -> Delivered(m)
              [] o = "escalated"      -> escalated
              [] OTHER                -> unanswered /\ ~escalated}

\* the outbound calls made for a message stay within their bounds, and a
\* handler that has returned has exactly one terminal outcome
OutboundBounded ==
    \A m \in Msgs :
        /\ task[m].pc # "raised"
        /\ Len(task[m].llm_calls) <= 1
        /\ (task[m].svc # NoCall) => Len(task[m].llm_calls) = 1
        /\ Len(replies[m]) <= 3
        /\ Len(task[m].delivery_attempts) = Len(replies[m])
        /\ Len(modSends[m]) <= 1
        /\ Finished(m) => Cardinality(TerminalOutcomes(m)) = 1

\* every step of a handler brings it strictly nearer to its end: no position
\* is taken twice, so the typing indicator is sent at most once
HandlerAdvances ==
    \A m \in Msgs :
        task'[m] # task[m] => Rank(task'[m]) < Rank(task[m])

\* no awaited reply_text stays pending for ever
RepliesReturn ==
    \A m \in LiveMsgs : \A k \in 1..3 :
        []<>(~(task[m].pc = "send" /\ task[m].method = Methods[k]))

\* C40: the handling of one message makes at most one typing indicator, one
\* completion-service call, three delivery attempts and one moderator send,
\* and, every awaited call returning, it ends with exactly one terminal
\* outcome among ignored, not-a-question, delivered, escalated and dropped.
C40_BoundedTermination ==
    /\ []OutboundBounded
    /\ [][HandlerAdvances]_vars
    /\ RepliesReturn =>
           \A m \in LiveMsgs :
               Handled(m) ~> (Finished(m) /\ Cardinality(TerminalOutcomes(m)) = 1)

\* C40 witness: the longest handling: the typing indicator, one call of the
\* completion service, three failed delivery attempts and the failure report
\* to the moderation channel; the handler has returned, outcome escalated.
C40_Witness ==
    \E m \in LiveMsgs :
        /\ Finished(m)
        /\ task[m].typing_ok
        /\ task[m].svc.kind = "text" /\ Len(task[m].llm_calls) = 1
        /\ Len(replies[m]) = 3 /\ Exhausted(m)
        /\ Len(modSends[m]) = 1 /\ modSends[m][1].template = "delivery_failed"
        /\ TerminalOutcomes(m) = {"escalated"}

=============================================================================
